---- MODULE Spec2Model ----
(***************************************************************************)
(* The HCN syscall gateway of hcn/zsyscall_windows.go: the lazily bound    *)
(* entry-point table, the typed wrappers (string conversion, symbol        *)
(* resolution, one native invocation, status decoding) and the native      *)
(* layer they call into, which is the environment; and, from the same      *)
(* file, the pod resource-update functional tests of package               *)
(* cri_containerd, a process of their own (variable test, SpecTest).       *)
(*                                                                         *)
(* A machine word (uintptr, 64 bits) is a tuple of four 16-bit limbs, most *)
(* significant first: <<b63..48, b47..32, b31..16, b15..0>>.               *)
(***************************************************************************)
EXTENDS Integers, Sequences, FiniteSets, TLC

VARIABLES
  host,    \* the machine: which libraries load and which symbols they lack
  proc,    \* the binding table: per proc variable, the cached address
  live,    \* the native layer's table of open handles
  closed,  \* the handles the native layer has closed and not handed out again
  pc,      \* per thread, its position in the wrapper it is running
  call,    \* per thread, the locals of the wrapper call in progress
  ncalls,  \* wrapper calls begun so far
  test     \* the functional-test process: the test function it is running

vars == <<host, proc, live, closed, pc, call, ncalls, test>>

(***************************************************************************)
(* Bounds of the model.                                                    *)
(***************************************************************************)
NumThreads == 2
MaxCalls == 3
MaxHandle == 1

Threads == 1..NumThreads
Handles == 1..MaxHandle

(***************************************************************************)
(* The binding table (var block of the generated file).                    *)
(***************************************************************************)
ProcTable ==
  [procHcnCloseEndpoint |-> [dll |-> "computenetwork.dll", name |-> "HcnCloseEndpoint"],
   procHcnCloseLoadBalancer |-> [dll |-> "computenetwork.dll", name |-> "HcnCloseLoadBalancer"],
   procHcnCloseNamespace |-> [dll |-> "computenetwork.dll", name |-> "HcnCloseNamespace"],
   procHcnCloseNetwork |-> [dll |-> "computenetwork.dll", name |-> "HcnCloseNetwork"],
   procHcnCloseSdnRoute |-> [dll |-> "computenetwork.dll", name |-> "HcnCloseSdnRoute"],
   procHcnCreateEndpoint |-> [dll |-> "computenetwork.dll", name |-> "HcnCreateEndpoint"],
   procHcnCreateLoadBalancer |-> [dll |-> "computenetwork.dll", name |-> "HcnCreateLoadBalancer"],
   procHcnCreateNamespace |-> [dll |-> "computenetwork.dll", name |-> "HcnCreateNamespace"],
   procHcnCreateNetwork |-> [dll |-> "computenetwork.dll", name |-> "HcnCreateNetwork"],
   procHcnCreateSdnRoute |-> [dll |-> "computenetwork.dll", name |-> "HcnCreateSdnRoute"],
   procHcnDeleteEndpoint |-> [dll |-> "computenetwork.dll", name |-> "HcnDeleteEndpoint"],
   procHcnDeleteLoadBalancer |-> [dll |-> "computenetwork.dll", name |-> "HcnDeleteLoadBalancer"],
   procHcnDeleteNamespace |-> [dll |-> "computenetwork.dll", name |-> "HcnDeleteNamespace"],
   procHcnDeleteNetwork |-> [dll |-> "computenetwork.dll", name |-> "HcnDeleteNetwork"],
   procHcnDeleteSdnRoute |-> [dll |-> "computenetwork.dll", name |-> "HcnDeleteSdnRoute"],
   procHcnEnumerateEndpoints |-> [dll |-> "computenetwork.dll", name |-> "HcnEnumerateEndpoints"],
   procHcnEnumerateLoadBalancers |-> [dll |-> "computenetwork.dll", name |-> "HcnEnumerateLoadBalancers"],
   procHcnEnumerateNamespaces |-> [dll |-> "computenetwork.dll", name |-> "HcnEnumerateNamespaces"],
   procHcnEnumerateNetworks |-> [dll |-> "computenetwork.dll", name |-> "HcnEnumerateNetworks"],
   procHcnEnumerateSdnRoutes |-> [dll |-> "computenetwork.dll", name |-> "HcnEnumerateSdnRoutes"],
   procHcnModifyEndpoint |-> [dll |-> "computenetwork.dll", name |-> "HcnModifyEndpoint"],
   procHcnModifyLoadBalancer |-> [dll |-> "computenetwork.dll", name |-> "HcnModifyLoadBalancer"],
   procHcnModifyNamespace |-> [dll |-> "computenetwork.dll", name |-> "HcnModifyNamespace"],
   procHcnModifyNetwork |-> [dll |-> "computenetwork.dll", name |-> "HcnModifyNetwork"],
   procHcnModifySdnRoute |-> [dll |-> "computenetwork.dll", name |-> "HcnModifySdnRoute"],
   procHcnOpenEndpoint |-> [dll |-> "computenetwork.dll", name |-> "HcnOpenEndpoint"],
   procHcnOpenLoadBalancer |-> [dll |-> "computenetwork.dll", name |-> "HcnOpenLoadBalancer"],
   procHcnOpenNamespace |-> [dll |-> "computenetwork.dll", name |-> "HcnOpenNamespace"],
   procHcnOpenNetwork |-> [dll |-> "computenetwork.dll", name |-> "HcnOpenNetwork"],
   procHcnOpenSdnRoute |-> [dll |-> "computenetwork.dll", name |-> "HcnOpenSdnRoute"],
   procHcnQueryEndpointProperties |-> [dll |-> "computenetwork.dll", name |-> "HcnQueryEndpointProperties"],
   procHcnQueryLoadBalancerProperties |-> [dll |-> "computenetwork.dll", name |-> "HcnQueryLoadBalancerProperties"],
   procHcnQueryNamespaceProperties |-> [dll |-> "computenetwork.dll", name |-> "HcnQueryNamespaceProperties"],
   procHcnQueryNetworkProperties |-> [dll |-> "computenetwork.dll", name |-> "HcnQueryNetworkProperties"],
   procHcnQuerySdnRouteProperties |-> [dll |-> "computenetwork.dll", name |-> "HcnQuerySdnRouteProperties"],
   procGetCurrentThreadCompartmentId |-> [dll |-> "iphlpapi.dll", name |-> "GetCurrentThreadCompartmentId"],
   procSetCurrentThreadCompartmentId |-> [dll |-> "iphlpapi.dll", name |-> "SetCurrentThreadCompartmentId"],
   procHNSCall |-> [dll |-> "vmcompute.dll", name |-> "HNSCall"]]

WrapperTable ==
  [hcnCloseEndpoint |->
     [find |-> "procHcnCloseEndpoint", addr |-> "procHcnCloseEndpoint", strs |-> <<>>, word |-> "endpoint",
      id |-> FALSE, hout |-> "", outs |-> {}, err |-> TRUE],
   hcnCloseLoadBalancer |->
     [find |-> "procHcnCloseLoadBalancer", addr |-> "procHcnCloseLoadBalancer", strs |-> <<>>, word |-> "loadBalancer",
      id |-> FALSE, hout |-> "", outs |-> {}, err |-> TRUE],
   hcnCloseNamespace |->
     [find |-> "procHcnCloseNamespace", addr |-> "procHcnCloseNamespace", strs |-> <<>>, word |-> "namespace",
      id |-> FALSE, hout |-> "", outs |-> {}, err |-> TRUE],
   hcnCloseNetwork |->
     [find |-> "procHcnCloseNetwork", addr |-> "procHcnCloseNetwork", strs |-> <<>>, word |-> "network",
      id |-> FALSE, hout |-> "", outs |-> {}, err |-> TRUE],
   hcnCloseRoute |->
     [find |-> "procHcnCloseSdnRoute", addr |-> "procHcnCloseSdnRoute", strs |-> <<>>, word |-> "route",
      id |-> FALSE, hout |-> "", outs |-> {}, err |-> TRUE],
   hcnCreateEndpoint |->
     [find |-> "procHcnCreateEndpoint", addr |-> "procHcnCreateEndpoint", strs |-> <<"settings">>, word |-> "network",
      id |-> TRUE, hout |-> "endpoint", outs |-> {"result"}, err |-> TRUE],
   hcnCreateLoadBalancer |->
     [find |-> "procHcnCreateLoadBalancer", addr |-> "procHcnCreateLoadBalancer", strs |-> <<"settings">>, word |-> "",
      id |-> TRUE, hout |-> "loadBalancer", outs |-> {"result"}, err |-> TRUE],
   hcnCreateNamespace |->
     [find |-> "procHcnCreateNamespace", addr |-> "procHcnCreateNamespace", strs |-> <<"settings">>, word |-> "",
      id |-> TRUE, hout |-> "namespace", outs |-> {"result"}, err |-> TRUE],
   hcnCreateNetwork |->
     [find |-> "procHcnCreateNetwork", addr |-> "procHcnCreateNetwork", strs |-> <<"settings">>, word |-> "",
      id |-> TRUE, hout |-> "network", outs |-> {"result"}, err |-> TRUE],
   hcnCreateRoute |->
     [find |-> "procHcnCreateSdnRoute", addr |-> "procHcnCreateSdnRoute", strs |-> <<"settings">>, word |-> "",
      id |-> TRUE, hout |-> "route", outs |-> {"result"}, err |-> TRUE],
   hcnDeleteEndpoint |->
     [find |-> "procHcnDeleteEndpoint", addr |-> "procHcnDeleteEndpoint", strs |-> <<>>, word |-> "",
      id |-> TRUE, hout |-> "", outs |-> {"result"}, err |-> TRUE],
   hcnDeleteLoadBalancer |->
     [find |-> "procHcnDeleteLoadBalancer", addr |-> "procHcnDeleteLoadBalancer", strs |-> <<>>, word |-> "",
      id |-> TRUE, hout |-> "", outs |-> {"result"}, err |-> TRUE],
   hcnDeleteNamespace |->
     [find |-> "procHcnDeleteNamespace", addr |-> "procHcnDeleteNamespace", strs |-> <<>>, word |-> "",
      id |-> TRUE, hout |-> "", outs |-> {"result"}, err |-> TRUE],
   hcnDeleteNetwork |->
     [find |-> "procHcnDeleteNetwork", addr |-> "procHcnDeleteNetwork", strs |-> <<>>, word |-> "",
      id |-> TRUE, hout |-> "", outs |-> {"result"}, err |-> TRUE],
   hcnDeleteRoute |->
     [find |-> "procHcnDeleteSdnRoute", addr |-> "procHcnDeleteSdnRoute", strs |-> <<>>, word |-> "",
      id |-> TRUE, hout |-> "", outs |-> {"result"}, err |-> TRUE],
   hcnEnumerateEndpoints |->
     [find |-> "procHcnEnumerateEndpoints", addr |-> "procHcnEnumerateEndpoints", strs |-> <<"query">>, word |-> "",
      id |-> FALSE, hout |-> "", outs |-> {"endpoints", "result"}, err |-> TRUE],
   hcnEnumerateLoadBalancers |->
     [find |-> "procHcnEnumerateLoadBalancers", addr |-> "procHcnEnumerateLoadBalancers", strs |-> <<"query">>, word |-> "",
      id |-> FALSE, hout |-> "", outs |-> {"loadBalancers", "result"}, err |-> TRUE],
   hcnEnumerateNamespaces |->
     [find |-> "procHcnEnumerateNamespaces", addr |-> "procHcnEnumerateNamespaces", strs |-> <<"query">>, word |-> "",
      id |-> FALSE, hout |-> "", outs |-> {"namespaces", "result"}, err |-> TRUE],
   hcnEnumerateNetworks |->
     [find |-> "procHcnEnumerateNetworks", addr |-> "procHcnEnumerateNetworks", strs |-> <<"query">>, word |-> "",
      id |-> FALSE, hout |-> "", outs |-> {"networks", "result"}, err |-> TRUE],
   hcnEnumerateRoutes |->
     [find |-> "procHcnEnumerateSdnRoutes", addr |-> "procHcnEnumerateSdnRoutes", strs |-> <<"query">>, word |-> "",
      id |-> FALSE, hout |-> "", outs |-> {"routes", "result"}, err |-> TRUE],
   hcnModifyEndpoint |->
     [find |-> "procHcnModifyEndpoint", addr |-> "procHcnModifyEndpoint", strs |-> <<"settings">>, word |-> "endpoint",
      id |-> FALSE, hout |-> "", outs |-> {"result"}, err |-> TRUE],
   hcnModifyLoadBalancer |->
     [find |-> "procHcnModifyLoadBalancer", addr |-> "procHcnModifyLoadBalancer", strs |-> <<"settings">>, word |-> "loadBalancer",
      id |-> FALSE, hout |-> "", outs |-> {"result"}, err |-> TRUE],
   hcnModifyNamespace |->
     [find |-> "procHcnModifyNamespace", addr |-> "procHcnModifyNamespace", strs |-> <<"settings">>, word |-> "namespace",
      id |-> FALSE, hout |-> "", outs |-> {"result"}, err |-> TRUE],
   hcnModifyNetwork |->
     [find |-> "procHcnModifyNetwork", addr |-> "procHcnModifyNetwork", strs |-> <<"settings">>, word |-> "network",
      id |-> FALSE, hout |-> "", outs |-> {"result"}, err |-> TRUE],
   hcnModifyRoute |->
     [find |-> "procHcnModifySdnRoute", addr |-> "procHcnModifySdnRoute", strs |-> <<"settings">>, word |-> "route",
      id |-> FALSE, hout |-> "", outs |-> {"result"}, err |-> TRUE],
   hcnOpenEndpoint |->
     [find |-> "procHcnOpenEndpoint", addr |-> "procHcnOpenEndpoint", strs |-> <<>>, word |-> "",
      id |-> TRUE, hout |-> "endpoint", outs |-> {"result"}, err |-> TRUE],
   hcnOpenLoadBalancer |->
     [find |-> "procHcnOpenLoadBalancer", addr |-> "procHcnOpenLoadBalancer", strs |-> <<>>, word |-> "",
      id |-> TRUE, hout |-> "loadBalancer", outs |-> {"result"}, err |-> TRUE],
   hcnOpenNamespace |->
     [find |-> "procHcnOpenNamespace", addr |-> "procHcnOpenNamespace", strs |-> <<>>, word |-> "",
      id |-> TRUE, hout |-> "namespace", outs |-> {"result"}, err |-> TRUE],
   hcnOpenNetwork |->
     [find |-> "procHcnOpenNetwork", addr |-> "procHcnOpenNetwork", strs |-> <<>>, word |-> "",
      id |-> TRUE, hout |-> "network", outs |-> {"result"}, err |-> TRUE],
   hcnOpenRoute |->
     [find |-> "procHcnOpenSdnRoute", addr |-> "procHcnOpenSdnRoute", strs |-> <<>>, word |-> "",
      id |-> TRUE, hout |-> "route", outs |-> {"result"}, err |-> TRUE],
   hcnQueryEndpointProperties |->
     [find |-> "procHcnQueryEndpointProperties", addr |-> "procHcnQueryEndpointProperties", strs |-> <<"query">>, word |-> "endpoint",
      id |-> FALSE, hout |-> "", outs |-> {"properties", "result"}, err |-> TRUE],
   hcnQueryLoadBalancerProperties |->
     [find |-> "procHcnQueryLoadBalancerProperties", addr |-> "procHcnQueryLoadBalancerProperties", strs |-> <<"query">>, word |-> "loadBalancer",
      id |-> FALSE, hout |-> "", outs |-> {"properties", "result"}, err |-> TRUE],
   hcnQueryNamespaceProperties |->
     [find |-> "procHcnQueryNamespaceProperties", addr |-> "procHcnQueryNamespaceProperties", strs |-> <<"query">>, word |-> "namespace",
      id |-> FALSE, hout |-> "", outs |-> {"properties", "result"}, err |-> TRUE],
   hcnQueryNetworkProperties |->
     [find |-> "procHcnQueryNetworkProperties", addr |-> "procHcnQueryNetworkProperties", strs |-> <<"query">>, word |-> "network",
      id |-> FALSE, hout |-> "", outs |-> {"properties", "result"}, err |-> TRUE],
   hcnQueryRouteProperties |->
     [find |-> "procHcnQuerySdnRouteProperties", addr |-> "procHcnQuerySdnRouteProperties", strs |-> <<"query">>, word |-> "route",
      id |-> FALSE, hout |-> "", outs |-> {"properties", "result"}, err |-> TRUE],
   GetCurrentThreadCompartmentId |->
     [find |-> "", addr |-> "procGetCurrentThreadCompartmentId", strs |-> <<>>, word |-> "",
      id |-> FALSE, hout |-> "", outs |-> {}, err |-> FALSE],
   SetCurrentThreadCompartmentId |->
     [find |-> "", addr |-> "procSetCurrentThreadCompartmentId", strs |-> <<>>, word |-> "compartmentId",
      id |-> FALSE, hout |-> "", outs |-> {}, err |-> TRUE],
   _hnsCall |->
     [find |-> "procHNSCall", addr |-> "procHNSCall", strs |-> <<"method", "path", "object">>, word |-> "",
      id |-> FALSE, hout |-> "", outs |-> {"response"}, err |-> TRUE]]

NativeVerb ==
  [HcnCloseEndpoint |-> "Close",
   HcnCloseLoadBalancer |-> "Close",
   HcnCloseNamespace |-> "Close",
   HcnCloseNetwork |-> "Close",
   HcnCloseSdnRoute |-> "Close",
   HcnCreateEndpoint |-> "Create",
   HcnCreateLoadBalancer |-> "Create",
   HcnCreateNamespace |-> "Create",
   HcnCreateNetwork |-> "Create",
   HcnCreateSdnRoute |-> "Create",
   HcnDeleteEndpoint |-> "Delete",
   HcnDeleteLoadBalancer |-> "Delete",
   HcnDeleteNamespace |-> "Delete",
   HcnDeleteNetwork |-> "Delete",
   HcnDeleteSdnRoute |-> "Delete",
   HcnEnumerateEndpoints |-> "Enumerate",
   HcnEnumerateLoadBalancers |-> "Enumerate",
   HcnEnumerateNamespaces |-> "Enumerate",
   HcnEnumerateNetworks |-> "Enumerate",
   HcnEnumerateSdnRoutes |-> "Enumerate",
   HcnModifyEndpoint |-> "Modify",
   HcnModifyLoadBalancer |-> "Modify",
   HcnModifyNamespace |-> "Modify",
   HcnModifyNetwork |-> "Modify",
   HcnModifySdnRoute |-> "Modify",
   HcnOpenEndpoint |-> "Open",
   HcnOpenLoadBalancer |-> "Open",
   HcnOpenNamespace |-> "Open",
   HcnOpenNetwork |-> "Open",
   HcnOpenSdnRoute |-> "Open",
   HcnQueryEndpointProperties |-> "Query",
   HcnQueryLoadBalancerProperties |-> "Query",
   HcnQueryNamespaceProperties |-> "Query",
   HcnQueryNetworkProperties |-> "Query",
   HcnQuerySdnRouteProperties |-> "Query",
   GetCurrentThreadCompartmentId |-> "Get",
   SetCurrentThreadCompartmentId |-> "Set",
   HNSCall |-> "Call"]

Procs == DOMAIN ProcTable
Wrappers == DOMAIN WrapperTable
AllDlls == {ProcTable[p].dll : p \in Procs}

(***************************************************************************)
(* Machine words.                                                          *)
(***************************************************************************)
RECURSIVE And16(_, _)
And16(a, b) ==
  IF a = 0 \/ b = 0 THEN 0
  ELSE (a % 2) * (b % 2) + 2 * And16(a \div 2, b \div 2)

AndWord(x, y) == [i \in 1..4 |-> And16(x[i], y[i])]

Word32(hi, lo) == <<0, 0, hi, lo>>

\* int32(r0): the low 32 bits read as a signed integer (sign * magnitude
\* kept apart from the limbs: only its sign is ever used).
Int32Negative(r0) == r0[3] >= 32768

\* uint32(r0)
Uint32(r0) == <<0, 0, r0[3], r0[4]>>

(***************************************************************************)
(* Errors.                                                                 *)
(***************************************************************************)
NoWord == <<>>
NoError == [kind |-> "nil", num |-> NoWord, obj |-> ""]
\* syscall.Errno(r0)
Errno(r0) == [kind |-> "Errno", num |-> r0, obj |-> ""]
\* syscall.EINVAL, what UTF16PtrFromString returns for a string holding a NUL
EINVAL == [kind |-> "EINVAL", num |-> NoWord, obj |-> ""]
\* *windows.DLLError of a failed LoadLibrary or GetProcAddress
DLLError(op, name) == [kind |-> "DLLError", num |-> NoWord, obj |-> op \o ":" \o name]

(***************************************************************************)
(* Status decoding, as every wrapper spells it out after SyscallN.         *)
(***************************************************************************)

\* DecodeStatus testing the pattern under the mask 0xffff0000 against
\* 0x80070000, the customary FACILITY_WIN32 test, instead of 0x1fff0000.
DecodeStatusWideMask(r0) ==
  IF Int32Negative(r0)
    THEN IF AndWord(r0, Word32(65535, 0)) = Word32(32775, 0)
           THEN Errno(AndWord(r0, Word32(0, 65535)))
           ELSE Errno(r0)
    ELSE NoError

\* DecodeStatus taking every nonzero status for a failure.
DecodeStatusNonZero(r0) ==
  IF r0 # <<0, 0, 0, 0>>
    THEN IF AndWord(r0, Word32(8191, 0)) = Word32(7, 0)
           THEN Errno(AndWord(r0, Word32(0, 65535)))
           ELSE Errno(r0)
    ELSE NoError


\* DecodeStatus treating error number 0 as no error.
DecodeStatusZeroIsNil(r0) ==
  IF Int32Negative(r0)
    THEN IF AndWord(r0, Word32(8191, 0)) = Word32(7, 0)
           THEN IF AndWord(r0, Word32(0, 65535)) = Word32(0, 0)
                  THEN NoError
                  ELSE Errno(AndWord(r0, Word32(0, 65535)))
           ELSE Errno(r0)
    ELSE NoError

DecodeStatus(r0) ==
  IF Int32Negative(r0)
    THEN IF AndWord(r0, Word32(8191, 0)) = Word32(7, 0)
           THEN Errno(AndWord(r0, Word32(0, 65535)))
           ELSE Errno(r0)
    ELSE NoError

(***************************************************************************)
(* Strings: a Go string is the sequence of its code points; the buffer     *)
(* handed to the native layer is a sequence of UTF-16 code units.          *)
(***************************************************************************)
EncodeRune(r) ==
  IF r >= 65536
    THEN <<55296 + ((r - 65536) \div 1024), 56320 + ((r - 65536) % 1024)>>
    ELSE IF r >= 55296 /\ r <= 57343 THEN <<65533>> ELSE <<r>>

RECURSIVE UTF16Encode(_)
UTF16Encode(s) ==
  IF s = <<>> THEN <<>> ELSE EncodeRune(Head(s)) \o UTF16Encode(Tail(s))

\* syscall.UTF16PtrFromString
UTF16PtrFromString(s) ==
  IF \E i \in 1..Len(s) : s[i] = 0
    THEN [err |-> EINVAL, ptr |-> <<>>]
    ELSE [err |-> NoError, ptr |-> UTF16Encode(s) \o <<0>>]


\* ConvertArgs dropping the conversion errors: a string that does not
\* convert is passed on as a nil pointer.
RECURSIVE ConvertArgsUnchecked(_, _)
ConvertArgsUnchecked(strs, done) ==
  IF strs = <<>> THEN [err |-> NoError, ptrs |-> done]
  ELSE ConvertArgsUnchecked(Tail(strs),
                            Append(done, UTF16PtrFromString(Head(strs)).ptr))

\* The conversions of a wrapper's string arguments, in parameter order,
\* stopping at the first that fails.
RECURSIVE ConvertArgs(_, _)

\* ConvertArgs handing on each buffer without its terminating null.
RECURSIVE ConvertArgsUnterminated(_, _)
ConvertArgsUnterminated(strs, done) ==
  IF strs = <<>> THEN [err |-> NoError, ptrs |-> done]
  ELSE LET c == UTF16PtrFromString(Head(strs))
       IN IF c.err # NoError
            THEN [err |-> c.err, ptrs |-> done]
            ELSE ConvertArgsUnterminated(Tail(strs),
                   Append(done, SubSeq(c.ptr, 1, Len(c.ptr) - 1)))


\* ConvertArgs taking the arguments from the last to the first.
RECURSIVE ConvertArgsLastFirst(_, _)
ConvertArgsLastFirst(strs, done) ==
  IF strs = <<>> THEN [err |-> NoError, ptrs |-> done]
  ELSE LET c == UTF16PtrFromString(strs[Len(strs)])
       IN IF c.err # NoError
            THEN [err |-> c.err, ptrs |-> done]
            ELSE ConvertArgsLastFirst(SubSeq(strs, 1, Len(strs) - 1), <<c.ptr>> \o done)

ConvertArgs(strs, done) ==
  IF strs = <<>> THEN [err |-> NoError, ptrs |-> done]
  ELSE LET c == UTF16PtrFromString(Head(strs))
       IN IF c.err # NoError
            THEN [err |-> c.err, ptrs |-> done]
            ELSE ConvertArgs(Tail(strs), Append(done, c.ptr))

(***************************************************************************)
(* The machine and lazy binding (windows.LazyProc).                        *)
(***************************************************************************)
NilProc == <<>>

\* Exports an older computenetwork.dll does not have yet.
SdnRouteExports ==
  {"HcnCloseSdnRoute", "HcnCreateSdnRoute", "HcnDeleteSdnRoute",
   "HcnEnumerateSdnRoutes", "HcnModifySdnRoute", "HcnOpenSdnRoute",
   "HcnQuerySdnRouteProperties"}

Hosts ==
  {[dlls |-> D, missing |-> {}] : D \in SUBSET AllDlls}
    \cup {[dlls |-> AllDlls, missing |-> SdnRouteExports]}

\* LazyDLL.Load followed by DLL.FindProc: the address of the export, or the
\* error of the step that failed.
Lookup(h, p) ==
  LET e == ProcTable[p]
  IN IF e.dll \notin h.dlls
       THEN [err |-> DLLError("Failed to load", e.dll), addr |-> NilProc]
       ELSE IF e.name \in h.missing
         THEN [err |-> DLLError("Failed to find", e.name), addr |-> NilProc]
         ELSE [err |-> NoError, addr |-> <<e.dll, e.name>>]

Resolvable(h, p) == Lookup(h, p).err = NoError

\* The binding table of a process that has made no call yet, and of one
\* that has already called through every entry point the machine has.
\* The table holds the cells that are set; an empty cell (nil) has no entry.
ColdTable == <<>>
WarmTable(h) == [p \in {q \in Procs : Resolvable(h, q)} |-> Lookup(h, p).addr]

\* The content of proc variable p's cell.
Cell(p) == IF p \in DOMAIN proc THEN proc[p] ELSE NilProc

\* The table with addr stored into p's cell.
SetCell(p, addr) == [q \in DOMAIN proc \cup {p} |-> IF q = p THEN addr ELSE proc[q]]

(***************************************************************************)
(* The native layer.                                                       *)
(***************************************************************************)
InitVal == [tag |-> "init", v |-> 0]
NoWrite == [tag |-> "none", v |-> 0]
TextVal == [tag |-> "text", v |-> 0]
HandleVal(h) == [tag |-> "handle", v |-> h]

\* What the native layer may store through the output pointers it is given.
Writes(w) ==
  LET W == WrapperTable[w]
      ptrs == W.outs \cup (IF W.hout = "" THEN {} ELSE {W.hout})
      vals(o) == IF o = W.hout THEN {NoWrite} \cup {HandleVal(h) : h \in Handles}
                 ELSE {NoWrite, TextVal}
  IN {f \in [ptrs -> {NoWrite, TextVal} \cup {HandleVal(h) : h \in Handles}] :
        \A o \in ptrs : f[o] \in vals(o)}

\* The verb of the entry point at an address; "none" where no entry point
\* of the table is.
VerbAt(addr) ==
  IF addr # NilProc /\ addr[2] \in DOMAIN NativeVerb THEN NativeVerb[addr[2]]
  ELSE "none"

\* The handles a native call stored through its output pointers.
Issued(wr) == {wr[o].v : o \in {x \in DOMAIN wr : wr[x].tag = "handle"}}

\* The handle table after a native call: a successful create or open that
\* stored a handle adds it, a successful close removes its argument.
LiveAfter(lv, addr, word, r0, wr) ==
  IF Int32Negative(r0) THEN lv
  ELSE IF VerbAt(addr) \in {"Create", "Open"} THEN lv \cup Issued(wr)
    ELSE IF VerbAt(addr) = "Close" THEN lv \ {word} ELSE lv

\* The closed handles after a native call.
ClosedAfter(cl, lv, addr, word, r0, wr) ==
  IF Int32Negative(r0) THEN cl
  ELSE IF VerbAt(addr) \in {"Create", "Open"} THEN cl \ Issued(wr)
    ELSE IF VerbAt(addr) = "Close" /\ word \in lv THEN cl \cup {word} ELSE cl

\* What the native layer knows of handle word h when a call arrives.
HandleState(h) ==
  IF h \in live THEN "live" ELSE IF h \in closed THEN "closed" ELSE "never"

(***************************************************************************)
(* Wrapper calls.                                                          *)
(***************************************************************************)
\* The functional-test process before it runs (it is a process of its own:
\* the gateway's steps leave it alone).
NoTest == [fn |-> "", at |-> "none", defers |-> <<>>, log |-> <<>>, failed |-> FALSE,
           skipped |-> FALSE, pod |-> 0, ran |-> 0]

NoSent == [word |-> 0, id |-> FALSE, ptrs |-> <<>>, outs |-> {}]

NoCall ==
  [w |-> "", strs |-> <<>>, word |-> 0, ptrs |-> <<>>, res |-> NilProc,
   target |-> NilProc, sent |-> NoSent, r0 |-> NoWord, hr |-> NoError,
   n |-> 0, out |-> <<>>, wrote |-> <<>>, ret |-> NoWord, panic |-> NoError,
   hstate |-> ""]

OutPtrs(w) ==
  WrapperTable[w].outs
    \cup (IF WrapperTable[w].hout = "" THEN {} ELSE {WrapperTable[w].hout})

\* The proc variable whose resolution decides the call: the one the wrapper
\* checks with Find, or, where it checks none, the one Addr resolves.
FindProc(w) ==
  IF WrapperTable[w].find # "" THEN WrapperTable[w].find ELSE WrapperTable[w].addr

Crashed == \E t \in Threads : pc[t] = "panicked"


\* FindFailed discarding the error: the wrapper returns as if it had
\* succeeded.
FindFailedSwallowed(w, e) == [pc |-> "done", hr |-> NoError, panic |-> NoError]

\* What the wrapper does when Find (or, in a wrapper that calls only Addr,
\* mustFind) fails with e: it returns e, or panics with it.
FindFailed(w, e) ==
  IF WrapperTable[w].find # ""
    THEN [pc |-> "done", hr |-> e, panic |-> NoError]
    ELSE [pc |-> "panicked", hr |-> NoError, panic |-> e]


\* Enter with the checks in the other order: the entry point is looked up
\* before the strings are converted.
EnterResolveFirst(t, w, strs, word) ==
  /\ ~Crashed
  /\ ncalls < MaxCalls
  /\ Len(strs) = Len(WrapperTable[w].strs)
  /\ WrapperTable[w].word = "" => word = 0
  /\ LET c == ConvertArgs(strs, <<>>)
         r == Lookup(host, FindProc(w))
         entered == [NoCall EXCEPT !.w = w, !.strs = strs, !.word = word,
                                   !.out = [o \in OutPtrs(w) |-> InitVal]]
     IN IF r.err # NoError /\ WrapperTable[w].find # ""
          THEN /\ call' = [call EXCEPT ![t] = [entered EXCEPT !.hr = r.err]]
               /\ pc' = [pc EXCEPT ![t] = "done"]
          ELSE IF c.err # NoError
            THEN /\ call' = [call EXCEPT ![t] = [entered EXCEPT !.hr = c.err, !.ptrs = c.ptrs]]
                 /\ pc' = [pc EXCEPT ![t] = "done"]
            ELSE /\ call' = [call EXCEPT ![t] = [entered EXCEPT !.ptrs = c.ptrs]]
                 /\ pc' = [pc EXCEPT ![t] = "find"]
  /\ ncalls' = ncalls + 1
  /\ UNCHANGED <<host, proc, live, closed, test>>

\* Wrapper w is entered with its arguments: hcnXxx(... string ...) makes its
\* conversions and returns early when one fails, with the buffers converted
\* before it (_p0, _p1) left in its locals.
Enter(t, w, strs, word) ==
  /\ ~Crashed
  /\ ncalls < MaxCalls
  /\ Len(strs) = Len(WrapperTable[w].strs)
  /\ WrapperTable[w].word = "" => word = 0
  /\ LET c == ConvertArgs(strs, <<>>)
         entered == [NoCall EXCEPT !.w = w, !.strs = strs, !.word = word,
                                   !.out = [o \in OutPtrs(w) |-> InitVal]]
     IN IF c.err # NoError
          THEN /\ call' = [call EXCEPT ![t] = [entered EXCEPT !.hr = c.err, !.ptrs = c.ptrs]]
               /\ pc' = [pc EXCEPT ![t] = "done"]
          ELSE /\ call' = [call EXCEPT ![t] = [entered EXCEPT !.ptrs = c.ptrs]]
               /\ pc' = [pc EXCEPT ![t] = "find"]
  /\ ncalls' = ncalls + 1
  /\ UNCHANGED <<host, proc, live, closed, test>>

\* A thread makes its first call.
Begin(t, w, strs, word) ==
  /\ pc[t] = "idle"
  /\ Enter(t, w, strs, word)

\* LazyProc.Find: the cell is read; when it is empty the library is loaded
\* and the export looked up.
Find(t) ==
  /\ ~Crashed
  /\ pc[t] = "find"
  /\ LET w == call[t].w
         r == Lookup(host, FindProc(w))
     IN IF Cell(FindProc(w)) # NilProc
          THEN /\ pc' = [pc EXCEPT ![t] = "call"]
               /\ UNCHANGED call
          ELSE IF r.err = NoError
            THEN /\ call' = [call EXCEPT ![t].res = r.addr]
                 /\ pc' = [pc EXCEPT ![t] = "store"]
            ELSE /\ call' = [call EXCEPT ![t].hr = FindFailed(w, r.err).hr,
                                         ![t].panic = FindFailed(w, r.err).panic]
                 /\ pc' = [pc EXCEPT ![t] = FindFailed(w, r.err).pc]
  /\ UNCHANGED <<host, proc, live, closed, ncalls, test>>

\* LazyProc.Find, the slow path: the resolved address is published.
Store(t) ==
  /\ ~Crashed
  /\ pc[t] = "store"
  /\ proc' = SetCell(FindProc(call[t].w), call[t].res)
  /\ pc' = [pc EXCEPT ![t] = "call"]
  /\ UNCHANGED <<host, live, closed, call, ncalls, test>>

\* LazyProc.Addr: the cached address; an empty cell is resolved on the spot
\* and a failure there panics.
AddrOf(p) ==
  IF Cell(p) # NilProc THEN [err |-> NoError, addr |-> Cell(p)]
  ELSE Lookup(host, p)


\* CallTarget using the address this call's own lookup produced, which is
\* nil when the call found the cell already set.
CallTargetOwnLookup(c) == [err |-> NoError, addr |-> c.res]


\* CallTarget with hcnCloseRoute bound to the network export instead of the
\* SdnRoute one.
CallTargetRouteAsNetwork(c) ==
  IF c.w = "hcnCloseRoute" THEN AddrOf("procHcnCloseNetwork")
  ELSE AddrOf(WrapperTable[c.w].addr)

\* The first argument of the wrapper's SyscallN: procXxx.Addr(), evaluated
\* when the call is made.
CallTarget(c) == AddrOf(WrapperTable[c.w].addr)


\* Forward keeping the output pointers back: the native layer is handed
\* nil for each of them.
ForwardNoOutputs(c) ==
  [word |-> c.word, id |-> WrapperTable[c.w].id, ptrs |-> c.ptrs, outs |-> {}]


\* Forward validating the handle: a word the handle table does not hold is
\* replaced by the null handle.
ForwardValidated(c) ==
  [word |-> IF c.word \in live THEN c.word ELSE 0, id |-> WrapperTable[c.w].id,
   ptrs |-> c.ptrs, outs |-> OutPtrs(c.w)]

\* The argument list of the wrapper's SyscallN: the handle (or compartment
\* id) word, the GUID pointer, the converted strings, the output pointers.
Forward(c) ==
  [word |-> c.word, id |-> WrapperTable[c.w].id, ptrs |-> c.ptrs,
   outs |-> OutPtrs(c.w)]


\* Returned keeping hr in a variable the wrappers share: a failure another
\* thread's call has just decoded is returned in place of the call's own.
ReturnedShared(c, r0) ==
  LET others == {u \in Threads : pc[u] = "done" /\ call[u].hr.kind = "Errno"}
  IN IF WrapperTable[c.w].err /\ others # {}
       THEN [hr |-> call[CHOOSE u \in others : TRUE].hr, ret |-> NoWord]
       ELSE IF WrapperTable[c.w].err
         THEN [hr |-> DecodeStatus(r0), ret |-> NoWord]
         ELSE [hr |-> NoError, ret |-> Uint32(r0)]


\* Returned reading a failure out of every wrapper's r0, the compartment
\* getter's too.
ReturnedAlwaysDecoded(c, r0) ==
  IF WrapperTable[c.w].err \/ Int32Negative(r0)
    THEN [hr |-> DecodeStatus(r0), ret |-> NoWord]
    ELSE [hr |-> NoError, ret |-> Uint32(r0)]

\* The wrapper's result once SyscallN has returned r0: the decoded status in
\* hr, or, in the one wrapper without an error result, the low 32 bits.
Returned(c, r0) ==
  IF WrapperTable[c.w].err
    THEN [hr |-> DecodeStatus(r0), ret |-> NoWord]
    ELSE [hr |-> NoError, ret |-> Uint32(r0)]


\* AfterSyscall retrying: a negative status sends the wrapper back to make
\* the call again.
AfterSyscallRetry(r0) == IF Int32Negative(r0) THEN "call" ELSE "done"

\* Where the wrapper goes once SyscallN has returned r0: to its return.
AfterSyscall(r0) == "done"

\* The caller's output variables after the native layer stored wr through
\* the pointers it was passed.
Stored(out, passed, wr) ==
  [o \in DOMAIN out |->
     IF o \in passed /\ wr[o] # NoWrite THEN wr[o] ELSE out[o]]

\* r0, _, _ := syscall.SyscallN(procXxx.Addr(), ...), the native layer's
\* reaction, and the decoding of r0 into the wrapper's result.
Syscall(t, r0, wr) ==
  /\ ~Crashed
  /\ pc[t] = "call"
  /\ LET c == call[t]
         W == WrapperTable[c.w]
         a == CallTarget(c)
         sent == Forward(c)
     IN IF a.err # NoError
          THEN /\ call' = [call EXCEPT ![t].panic = a.err]
               /\ pc' = [pc EXCEPT ![t] = "panicked"]
               /\ UNCHANGED <<proc, live, closed>>
          ELSE /\ call' = [call EXCEPT ![t] =
                    [c EXCEPT !.target = a.addr, !.sent = sent, !.n = c.n + 1,
                              !.r0 = r0, !.wrote = wr,
                              !.out = Stored(c.out, sent.outs, wr),
                              !.hr = Returned(c, r0).hr,
                              !.ret = Returned(c, r0).ret,
                              !.hstate = HandleState(sent.word)]]
               /\ pc' = [pc EXCEPT ![t] = AfterSyscall(r0)]
               /\ proc' = IF Cell(W.addr) = NilProc THEN SetCell(W.addr, a.addr) ELSE proc
               /\ live' = LiveAfter(live, a.addr, sent.word, r0, wr)
               /\ closed' = ClosedAfter(closed, live, a.addr, sent.word, r0, wr)
  /\ UNCHANGED <<host, ncalls, test>>

\* The native layer's usual stores: through every pointer it is given when
\* the call succeeds, through none when it fails.
Usual(w, r0) ==
  {f \in Writes(w) : \A o \in DOMAIN f : f[o] = NoWrite <=> Int32Negative(r0)}

\* The call is made and the native layer answers with a status of S and
\* with stores of its choosing (every) or with its usual ones.
SyscallAny(t, S, every) ==
  /\ pc[t] = "call"
  /\ \E r0 \in S :
       \E wr \in (IF every THEN Writes(call[t].w) ELSE Usual(call[t].w, r0)) :
         Syscall(t, r0, wr)

\* The caller has the results of its call and makes its next one.
Again(t, w, strs, word) ==
  /\ pc[t] = "done"
  /\ Enter(t, w, strs, word)

(***************************************************************************)
(* Inputs.                                                                 *)
(***************************************************************************)
EmptyJSON == <<123, 125>>          \* "{}"
WithNUL == <<97, 0, 98>>           \* "a\x00b"
Astral == <<128512>>               \* one code point beyond the BMP
Unpaired == <<97, 55357>>          \* invalid text: a surrogate code point

StrSamples == {EmptyJSON, WithNUL, Astral, Unpaired}
RaceStrSamples == {EmptyJSON, WithNUL}

StrArgs(w, S) == [1..Len(WrapperTable[w].strs) -> S]

\* Status words the native layer may return: successes, errno-pattern
\* failures (also with bits 29..31 set beyond the sign bit), other failures,
\* and words whose upper 32 bits are not zero.
StatusSamples ==
  {Word32(0, 0), Word32(0, 1), Word32(32767, 65535), Word32(7, 5),
   Word32(32775, 5), Word32(32775, 0), Word32(32775, 65535),
   Word32(49159, 997), Word32(32768, 16389), Word32(32791, 5),
   Word32(65535, 65535), <<0, 1, 0, 0>>, <<0, 1, 32768, 16389>>,
   <<0, 1, 32775, 5>>}
RaceStatusSamples == {Word32(0, 0), Word32(32775, 5)}

RaceMenu == {"hcnOpenNetwork", "hcnEnumerateNetworks", "hcnCloseNetwork"}

RaceHosts ==
  {[dlls |-> AllDlls, missing |-> {}], [dlls |-> AllDlls \ {"computenetwork.dll"}, missing |-> {}]}

(***************************************************************************)
(* Spec: one call, through any wrapper, by one thread of a process whose   *)
(* binding table is cold or warm.  SpecRace: up to MaxCalls calls by       *)
(* NumThreads threads running concurrently through the wrappers of         *)
(* RaceMenu.                                                               *)
(***************************************************************************)
Init ==
  /\ host \in Hosts
  /\ proc \in {ColdTable, WarmTable(host)}
  /\ live = {}
  /\ closed = {}
  /\ pc = [t \in Threads |-> "idle"]
  /\ call = [t \in Threads |-> NoCall]
  /\ ncalls = 0
  /\ test = NoTest

Next ==
  \/ \E w \in Wrappers, word \in 0..MaxHandle :
       \E strs \in StrArgs(w, StrSamples) : Begin(1, w, strs, word)
  \/ Find(1)
  \/ Store(1)
  \/ SyscallAny(1, StatusSamples, TRUE)

Spec == Init /\ [][Next]_vars

InitRace ==
  /\ host \in RaceHosts
  /\ proc = ColdTable
  /\ live = {}
  /\ closed = {}
  /\ pc = [t \in Threads |-> "idle"]
  /\ call = [t \in Threads |-> NoCall]
  /\ ncalls = 0
  /\ test = NoTest

NextRace ==
  \E t \in Threads :
    \/ \E w \in RaceMenu, word \in 0..MaxHandle :
         \E strs \in StrArgs(w, RaceStrSamples) : Begin(t, w, strs, word)
    \/ Find(t)
    \/ Store(t)
    \/ SyscallAny(t, RaceStatusSamples, FALSE)
    \/ \E w \in RaceMenu, word \in 0..MaxHandle :
         \E strs \in StrArgs(w, RaceStrSamples) : Again(t, w, strs, word)

SpecRace == InitRace /\ [][NextRace]_vars

(***************************************************************************)
(* The pod resource-update functional tests (package cri_containerd).      *)
(* The test process runs the test functions in file order; the container   *)
(* runtime it drives is the environment and decides every outcome.         *)
(***************************************************************************)
MaxPods == 2
PodIds == 1..MaxPods

TestFunctions ==
  <<"Test_Pod_UpdateResources_Memory", "Test_Pod_UpdateResources_Memory_PA",
    "Test_Pod_UpdateResources_CPUShares", "Test_Pod_UpdateResources_CPUGroup">>

\* The test functions that skip themselves before anything else.
SkippedAtEntry == {"Test_Pod_UpdateResources_CPUGroup"}

Event(op, pod, ok) == [op |-> op, pod |-> pod, ok |-> ok]

\* DeferredCleanup with the two defer statements in the other order.
DeferredCleanupStopFirst(id, stack) ==
  <<[op |-> "remove", pod |-> id], [op |-> "stop", pod |-> id]>> \o stack

\* The deferred calls after
\*   defer removePodSandbox(t, client, ctx, podID)
\*   defer stopPodSandbox(t, client, ctx, podID)
\* the last deferred first.
DeferredCleanup(id, stack) ==
  <<[op |-> "stop", pod |-> id], [op |-> "remove", pod |-> id]>> \o stack

\* runPodSandbox when the runtime refuses the sandbox: the helper fails the
\* test on the spot, so the test function goes no further.
AfterRunFailure == "unwind"

\* stopPodSandbox or removePodSandbox failing inside a deferred call: the
\* test is failed and the remaining deferred calls still run.
AfterCleanupFailure == "unwind"

\* The test process starts its first test function.
StartTests ==
  /\ test.at = "none"
  /\ test' = [NoTest EXCEPT !.fn = TestFunctions[1], !.at = "entry", !.ran = 1]
  /\ UNCHANGED <<host, proc, live, closed, pc, call, ncalls>>

\* The first statements of a test function: t.Skip in the CPU group test,
\* requireAnyFeature (and require.Build) in the others, which skip the test
\* when the host lacks what it needs.
Require(ok) ==
  /\ test.at = "entry"
  /\ test.fn \in SkippedAtEntry => ~ok
  /\ test' = IF ok THEN [test EXCEPT !.at = "subtest"]
             ELSE [test EXCEPT !.at = "end", !.skipped = TRUE]
  /\ UNCHANGED <<host, proc, live, closed, pc, call, ncalls>>

\* The subtest up to defer cancel(): requireFeatures may skip it,
\* pullRequiredImages and newTestRuntimeClient may fail it.
Setup(outcome) ==
  /\ test.at = "subtest"
  /\ test' = IF outcome = "ok"
               THEN [test EXCEPT !.at = "run", !.defers = <<[op |-> "cancel", pod |-> 0]>>]
             ELSE IF outcome = "skip"
               THEN [test EXCEPT !.at = "end", !.skipped = TRUE]
             ELSE [test EXCEPT !.at = "end", !.failed = TRUE]
  /\ UNCHANGED <<host, proc, live, closed, pc, call, ncalls>>

\* podID := runPodSandbox(...) and, when it returns, the two defers.
RunPodSandbox(ok, id) ==
  /\ test.at = "run"
  /\ ~ok => id = 0
  /\ ok => id \in PodIds
  /\ test' = IF ok
               THEN [test EXCEPT !.at = "update", !.pod = id,
                                 !.log = Append(@, Event("run", id, TRUE)),
                                 !.defers = DeferredCleanup(id, @)]
             ELSE [test EXCEPT !.at = AfterRunFailure, !.failed = TRUE,
                               !.log = Append(@, Event("run", 0, FALSE))]
  /\ UNCHANGED <<host, proc, live, closed, pc, call, ncalls>>

\* client.UpdateContainerResources(ctx, updateReq); an error is t.Fatalf,
\* which ends the function as a return does: through its deferred calls.
UpdateContainerResources(ok) ==
  /\ test.at = "update"
  /\ test' = [test EXCEPT !.at = "unwind", !.failed = @ \/ ~ok,
                          !.log = Append(@, Event("update", test.pod, ok))]
  /\ UNCHANGED <<host, proc, live, closed, pc, call, ncalls>>

\* The function is ending: its most recently deferred call runs.
Unwind(ok) ==
  /\ test.at = "unwind"
  /\ test.defers # <<>>
  /\ LET d == Head(test.defers)
     IN /\ d.op = "cancel" => ok
        /\ test' = [test EXCEPT
                      !.defers = Tail(@),
                      !.failed = @ \/ ~ok,
                      !.at = IF ok THEN "unwind" ELSE AfterCleanupFailure,
                      !.log = IF d.op = "cancel" THEN @
                              ELSE Append(@, Event(d.op, d.pod, ok))]
  /\ UNCHANGED <<host, proc, live, closed, pc, call, ncalls>>

\* No deferred call is left: the test function has ended.
Ended ==
  /\ test.at = "unwind"
  /\ test.defers = <<>>
  /\ test' = [test EXCEPT !.at = "end"]
  /\ UNCHANGED <<host, proc, live, closed, pc, call, ncalls>>

\* The next test function of the file starts.
NextTest ==
  /\ test.at = "end"
  /\ test.ran < Len(TestFunctions)
  /\ test' = [NoTest EXCEPT !.fn = TestFunctions[test.ran + 1], !.at = "entry",
                            !.ran = test.ran + 1]
  /\ UNCHANGED <<host, proc, live, closed, pc, call, ncalls>>

InitTest ==
  /\ host = [dlls |-> AllDlls, missing |-> {}]
  /\ proc = ColdTable
  /\ live = {}
  /\ closed = {}
  /\ pc = [t \in Threads |-> "idle"]
  /\ call = [t \in Threads |-> NoCall]
  /\ ncalls = 0
  /\ test = NoTest

NextTestStep ==
  \/ StartTests
  \/ \E ok \in BOOLEAN : Require(ok)
  \/ \E outcome \in {"ok", "skip", "fatal"} : Setup(outcome)
  \/ \E ok \in BOOLEAN, id \in PodIds \cup {0} : RunPodSandbox(ok, id)
  \/ \E ok \in BOOLEAN : UpdateContainerResources(ok)
  \/ \E ok \in BOOLEAN : Unwind(ok)
  \/ Ended
  \/ NextTest

SpecTest == InitTest /\ [][NextTestStep]_vars

(***************************************************************************)
(* Properties.                                                             *)
(***************************************************************************)
Done(t) == pc[t] = "done"

\* The call's string arguments all convert: none holds a NUL.
ConvOK(c) == \A i \in 1..Len(c.strs) : \A j \in 1..Len(c.strs[i]) : c.strs[i][j] # 0

\* The entry point of the call's wrapper can be resolved on this machine.
CanResolve(c) ==
  /\ ProcTable[FindProc(c.w)].dll \in host.dlls
  /\ ProcTable[FindProc(c.w)].name \notin host.missing

\* The status is negative as a signed 32-bit integer: bit 31 is set.
Negative(r0) == r0 # NoWord /\ r0[3] >= 32768

\* The status fits 32 bits: the upper half of the machine word is zero.
Is32(r0) == r0 # NoWord /\ r0[1] = 0 /\ r0[2] = 0

\* C1: in every wrapper that returns an error, a negative 32-bit status s
\* with (s AND 0x1fff0000) = 0x00070000 is reported as the error number
\* (s AND 0xffff), and every other negative s as s itself.
C1_StatusDecoding ==
  \A t \in Threads :
    (Done(t) /\ call[t].n = 1 /\ WrapperTable[call[t].w].err
       /\ Is32(call[t].r0) /\ Negative(call[t].r0))
    => /\ call[t].hr.kind = "Errno"
       /\ call[t].hr.num =
            IF call[t].r0[3] % 8192 = 7
              THEN <<0, 0, 0, call[t].r0[4]>>
              ELSE call[t].r0

\* C1 happens: a failure of the errno pattern with bit 30 set was masked to
\* its low 16 bits, and another call reported E_FAIL unchanged.
C1_Witness ==
  \E t \in Threads :
    /\ Done(t) /\ call[t].n = 1
    /\ call[t].r0 = <<0, 0, 49159, 997>>
    /\ call[t].hr = Errno(<<0, 0, 0, 997>>)

\* C2: when conversion and resolution succeeded, a status that is zero or
\* positive as a signed 32-bit integer gives a nil error, whatever the
\* native layer stored through the output pointers.
C2_NonNegativeIsSuccess ==
  \A t \in Threads :
    (Done(t) /\ ConvOK(call[t]) /\ CanResolve(call[t]) /\ ~Negative(call[t].r0))
    => call[t].hr = NoError

\* C2 happens: a positive, nonzero status came back with the result pointer
\* populated, and the wrapper returned nil.
C2_Witness ==
  \E t \in Threads :
    /\ Done(t) /\ call[t].n = 1
    /\ call[t].r0 = <<0, 0, 0, 1>>
    /\ \E o \in DOMAIN call[t].out : call[t].out[o] = TextVal
    /\ call[t].hr = NoError

\* C3: when a string argument does not convert (it holds a NUL), the
\* operation returns the conversion error and the native entry point is not
\* invoked during the call.
C3_ConversionFailureIsLocal ==
  \A t \in Threads :
    (pc[t] # "idle" /\ ~ConvOK(call[t]))
    => /\ Done(t)
       /\ call[t].hr = EINVAL
       /\ call[t].n = 0
       /\ call[t].target = NilProc

\* C3 happens: the legacy call returned the conversion error of its third
\* string, on a machine where HNSCall resolves.
C3_Witness ==
  \E t \in Threads :
    /\ Done(t) /\ call[t].w = "_hnsCall"
    /\ call[t].strs = <<EmptyJSON, EmptyJSON, WithNUL>>
    /\ CanResolve(call[t])
    /\ call[t].hr = EINVAL

\* C4: every operation, the two compartment accessors included, whose entry
\* point cannot be resolved returns to its caller with a not-found error: it
\* neither returns a zero-value success nor terminates abnormally.
C4_ResolutionFailureReturned ==
  \A t \in Threads :
    (pc[t] \notin {"idle", "find"} /\ ConvOK(call[t]) /\ ~CanResolve(call[t]))
    => /\ Done(t)
       /\ call[t].hr.kind = "DLLError"

\* C5: Create, for each of the five kinds, with settings "{}" on a machine
\* where its entry point cannot be resolved returns the error of the lookup,
\* which is no decoded status, and never invokes the entry point.
CreateWrappers ==
  {"hcnCreateNetwork", "hcnCreateEndpoint", "hcnCreateNamespace",
   "hcnCreateLoadBalancer", "hcnCreateRoute"}

C5_CreateWithoutHCN ==
  \A t \in Threads :
    (/\ pc[t] \notin {"idle", "find"}
     /\ call[t].w \in CreateWrappers
     /\ call[t].strs = <<EmptyJSON>>
     /\ ~CanResolve(call[t]))
    => /\ Done(t)
       /\ call[t].hr = Lookup(host, WrapperTable[call[t].w].find).err
       /\ call[t].hr.kind = "DLLError"
       /\ call[t].n = 0
       /\ call[t].r0 = NoWord

\* C5 happens: hcnCreateRoute returned the lookup's error on a machine whose
\* computenetwork.dll loads but lacks HcnCreateSdnRoute, and hcnCreateNetwork
\* would have resolved there.
C5_Witness ==
  \E t \in Threads :
    /\ Done(t) /\ call[t].w = "hcnCreateRoute"
    /\ call[t].strs = <<EmptyJSON>>
    /\ "computenetwork.dll" \in host.dlls
    /\ call[t].hr = DLLError("Failed to find", "HcnCreateSdnRoute")

\* The error a status word stands for: nil for a status that is not
\* negative, else the errno of its low 16 bits when bits 16..28 hold 7, else
\* the word itself.
ExpectedErr(r0) ==
  IF ~Negative(r0) THEN NoError
  ELSE Errno(IF r0[3] % 8192 = 7 THEN <<0, 0, 0, r0[4]>> ELSE r0)

\* C7: a wrapper call invokes the native entry point at most once, and
\* once when conversion and resolution both succeed; a negative status of
\* that invocation is the call's error, returned with no second invocation.
C7_NoRetries ==
  \A t \in Threads :
    /\ call[t].n <= 1
    /\ (Done(t) /\ ConvOK(call[t]) /\ CanResolve(call[t])) => call[t].n = 1
    /\ (call[t].n = 1 /\ Negative(call[t].r0) /\ WrapperTable[call[t].w].err)
         => (Done(t) /\ call[t].hr = ExpectedErr(call[t].r0))

\* C7 happens: hcnDeleteNetwork got E_FAIL from its one invocation and
\* returned it.
C7_Witness ==
  \E t \in Threads :
    /\ Done(t) /\ call[t].w = "hcnDeleteNetwork"
    /\ call[t].n = 1
    /\ call[t].r0 = <<0, 0, 32768, 16389>>
    /\ call[t].hr = Errno(<<0, 0, 32768, 16389>>)

\* C9: what the native layer stored through the output pointers is what
\* the caller finds in its output variables after the wrapper returns, on
\* success and on failure alike; the wrapper hands on every output pointer
\* and changes none of the outputs itself.
C9_OutputsSurfaced ==
  \A t \in Threads :
    /\ (Done(t) /\ call[t].n = 1) =>
         /\ call[t].sent.outs = DOMAIN call[t].out
         /\ \A o \in DOMAIN call[t].out :
              call[t].out[o] =
                IF call[t].wrote[o] # NoWrite THEN call[t].wrote[o] ELSE InitVal
    /\ (pc[t] # "idle" /\ call[t].n = 0) =>
         \A o \in DOMAIN call[t].out : call[t].out[o] = InitVal

\* C9 happens: a failed hcnEnumerateNetworks left the caller with the
\* diagnostic the native layer stored and with an untouched items output; a
\* successful one surfaces its result too (C2_Witness).
C9_Witness ==
  \E t \in Threads :
    /\ Done(t) /\ call[t].w = "hcnEnumerateNetworks"
    /\ Negative(call[t].r0)
    /\ call[t].hr # NoError
    /\ call[t].out["result"] = TextVal
    /\ call[t].out["networks"] = InitVal

\* The address of the export a proc variable names.
ExportAddr(p) == <<ProcTable[p].dll, ProcTable[p].name>>

\* C6: whatever the interleaving of threads that resolve the same entry
\* point for the first time, a set cell holds the export's one address and
\* keeps it, every call through the entry point targets that address, and
\* its status is decoded by the one rule.
C6_IdempotentBinding ==
  /\ \A p \in DOMAIN proc : proc[p] = ExportAddr(p)
  /\ \A t \in Threads :
       /\ pc[t] = "call" => Cell(WrapperTable[call[t].w].addr) # NilProc
       /\ call[t].n = 1 =>
            /\ call[t].target = ExportAddr(WrapperTable[call[t].w].addr)
            /\ call[t].hr = ExpectedErr(call[t].r0)

\* C6 happens: two threads each resolved HcnCloseNetwork themselves, both
\* published it, and both calls went through.
C6_Witness ==
  \E t, u \in Threads :
    /\ t # u
    /\ Done(t) /\ Done(u)
    /\ call[t].w = "hcnCloseNetwork" /\ call[u].w = "hcnCloseNetwork"
    /\ call[t].res # NilProc /\ call[u].res # NilProc
    /\ call[t].n = 1 /\ call[u].n = 1
    /\ call[t].target = call[u].target

\* C8: a handle word is forwarded to the native entry point as given,
\* whether the native layer has it open, has closed it or never handed it
\* out; once the symbol resolves the call is made and the wrapper's result
\* is the decoded status of that call.
C8_NoHandleTracking ==
  \A t \in Threads :
    (Done(t) /\ ConvOK(call[t]) /\ CanResolve(call[t]))
    => /\ call[t].n = 1
       /\ call[t].sent.word = call[t].word
       /\ call[t].hr = ExpectedErr(call[t].r0)

\* C8 happens: hcnCloseNetwork was called on a handle that had been opened
\* and closed before, the word reached the native layer and its failure
\* status came back as the error.
C8_Witness ==
  \E t \in Threads :
    /\ Done(t) /\ call[t].w = "hcnCloseNetwork"
    /\ call[t].word \in Handles
    /\ call[t].hstate = "closed"
    /\ call[t].sent.word = call[t].word
    /\ call[t].hr = Errno(<<0, 0, 0, 5>>)

\* A step of thread t inside a wrapper.
StepOf(t) == Find(t) \/ Store(t) \/ SyscallAny(t, RaceStatusSamples, FALSE)

\* C10: in any interleaving a call's error is decided by its own arguments,
\* by whether its own entry point resolves and by the status of its own
\* native invocation; and a thread inside a wrapper can always take its next
\* step, whatever the other threads are doing (no wrapper waits for a lock).
C10_NoInterference ==
  \A t \in Threads :
    /\ Done(t) =>
         call[t].hr =
           IF ~ConvOK(call[t]) THEN EINVAL
           ELSE IF ~CanResolve(call[t])
             THEN Lookup(host, FindProc(call[t].w)).err
             ELSE ExpectedErr(call[t].r0)
    /\ pc[t] \in {"find", "store", "call"} => ENABLED StepOf(t)

\* C10 happens: two calls of the same wrapper on the same handle ran
\* concurrently, one failed and one succeeded, each with its own result.
C10_Witness ==
  \E t, u \in Threads :
    /\ t # u
    /\ Done(t) /\ Done(u)
    /\ call[t].w = call[u].w /\ call[t].word = call[u].word
    /\ call[t].n = 1 /\ call[u].n = 1
    /\ call[t].hr = NoError
    /\ call[u].hr = Errno(<<0, 0, 0, 5>>)

\* The verbs and resource kinds of the HCN surface, and the names they give
\* to a wrapper and to its native entry point.
Verbs == {"Close", "Create", "Delete", "Enumerate", "Modify", "Open", "Query"}
Kinds == {"Network", "Endpoint", "Namespace", "LoadBalancer", "Route"}
Suffix(v) == IF v = "Enumerate" THEN "s" ELSE IF v = "Query" THEN "Properties" ELSE ""
WrapperOf(v, k) == "hcn" \o v \o k \o Suffix(v)
NativeOf(v, k) == "Hcn" \o v \o (IF k = "Route" THEN "SdnRoute" ELSE k) \o Suffix(v)

\* The wrappers of the surface: the seven verbs on the five kinds, the two
\* compartment accessors and the legacy call.
Surface ==
  {WrapperOf(v, k) : v \in Verbs, k \in Kinds}
    \cup {"GetCurrentThreadCompartmentId", "SetCurrentThreadCompartmentId", "_hnsCall"}

\* The entry point named for each wrapper of the surface: library and export.
NamedEntry ==
  [w \in Surface |->
     IF w \in {"GetCurrentThreadCompartmentId", "SetCurrentThreadCompartmentId"}
       THEN <<"iphlpapi.dll", w>>
     ELSE IF w = "_hnsCall" THEN <<"vmcompute.dll", "HNSCall">>
     ELSE LET vk == CHOOSE x \in Verbs \X Kinds : WrapperOf(x[1], x[2]) = w
          IN <<"computenetwork.dll", NativeOf(vk[1], vk[2])>>]

\* No two wrappers are bound to the same export.
NoSharedEntry ==
  \A w1, w2 \in Wrappers :
    w1 # w2 => ExportAddr(WrapperTable[w1].addr) # ExportAddr(WrapperTable[w2].addr)

\* C11: the wrappers are the seven verbs on the five kinds, the two
\* compartment accessors and the legacy call; each resolves and invokes the
\* entry point named for it, the one it checked is the one it invokes, and
\* no two wrappers share an entry point.
C11_BindingTable ==
  /\ Wrappers = Surface
  /\ NoSharedEntry
  /\ \A t \in Threads :
       /\ pc[t] = "store" => call[t].res = NamedEntry[call[t].w]
       /\ call[t].n = 1 =>
            /\ call[t].target = NamedEntry[call[t].w]
            /\ call[t].res # NilProc => call[t].res = call[t].target

\* C11 happens: hcnCloseRoute resolved HcnCloseSdnRoute of computenetwork.dll
\* itself and invoked it.
C11_Witness ==
  \E t \in Threads :
    /\ Done(t) /\ call[t].w = "hcnCloseRoute"
    /\ call[t].n = 1
    /\ call[t].res = <<"computenetwork.dll", "HcnCloseSdnRoute">>
    /\ call[t].target = <<"computenetwork.dll", "HcnCloseSdnRoute">>

\* Valid text: every code point is a Unicode scalar value.
ValidText(s) ==
  \A i \in 1..Len(s) : s[i] <= 1114111 /\ ~(s[i] >= 55296 /\ s[i] <= 57343)

\* UTF-16 decoding: a high surrogate followed by a low one is one code
\* point, any other surrogate is U+FFFD, any other unit is itself.
RECURSIVE UTF16Decode(_)
UTF16Decode(u) ==
  IF u = <<>> THEN <<>>
  ELSE IF /\ Len(u) >= 2
          /\ u[1] >= 55296 /\ u[1] <= 56319
          /\ u[2] >= 56320 /\ u[2] <= 57343
    THEN <<65536 + (u[1] - 55296) * 1024 + (u[2] - 56320)>>
           \o UTF16Decode(SubSeq(u, 3, Len(u)))
  ELSE IF u[1] >= 55296 /\ u[1] <= 57343
    THEN <<65533>> \o UTF16Decode(Tail(u))
  ELSE <<u[1]>> \o UTF16Decode(Tail(u))

\* C12: for a call whose string arguments all convert, every argument that
\* is valid text has a buffer that ends in a null, holds no other null and
\* decodes back to the argument; these buffers are the ones handed to the
\* native call.
C12_RoundTrip ==
  \A t \in Threads :
    /\ (pc[t] # "idle" /\ ConvOK(call[t])) =>
         /\ Len(call[t].ptrs) = Len(call[t].strs)
         /\ \A i \in 1..Len(call[t].strs) :
              ValidText(call[t].strs[i]) =>
                LET b == call[t].ptrs[i]
                IN /\ Len(b) >= 1
                   /\ b[Len(b)] = 0
                   /\ \A j \in 1..(Len(b) - 1) : b[j] # 0
                   /\ UTF16Decode(SubSeq(b, 1, Len(b) - 1)) = call[t].strs[i]
    /\ call[t].n = 1 => call[t].sent.ptrs = call[t].ptrs

\* C12 happens: hcnQueryNetworkProperties handed the native call the
\* surrogate pair of U+1F600 and a null for its query argument.
C12_Witness ==
  \E t \in Threads :
    /\ Done(t) /\ call[t].w = "hcnQueryNetworkProperties"
    /\ call[t].strs = <<Astral>>
    /\ call[t].n = 1
    /\ call[t].sent.ptrs = <<(<<55357, 56832, 0>>)>>

\* The low 32 bits of a machine word, as a word.
Low32(r0) == <<0, 0, r0[3], r0[4]>>

\* C13: the error a wrapper returns is decided by the low 32 bits of the
\* native return value alone: it is the error the same status gives when
\* the upper half of the machine word is zero.
C13_Low32Only ==
  \A t \in Threads :
    (Done(t) /\ call[t].n = 1 /\ WrapperTable[call[t].w].err)
    => call[t].hr = ExpectedErr(Low32(call[t].r0))

\* C14: a call with an unconvertible string returns the encoding error
\* without attempting resolution or invocation, whether or not its entry
\* point resolves; a returned resolution error means the strings converted
\* and nothing was invoked; a returned status error means the strings
\* converted, the entry point resolved and the one invocation was negative.
C14_ErrorPrecedence ==
  \A t \in Threads :
    /\ (pc[t] # "idle" /\ ~ConvOK(call[t])) =>
         /\ Done(t)
         /\ call[t].hr = EINVAL
         /\ call[t].res = NilProc
         /\ proc \in {ColdTable, WarmTable(host)}
         /\ call[t].n = 0
    /\ (Done(t) /\ ConvOK(call[t]) /\ ~CanResolve(call[t])) =>
         /\ call[t].hr.kind = "DLLError"
         /\ call[t].n = 0
    /\ (Done(t) /\ call[t].hr.kind = "EINVAL") => ~ConvOK(call[t])
    /\ (Done(t) /\ call[t].hr.kind = "DLLError") =>
         (ConvOK(call[t]) /\ ~CanResolve(call[t]))
    /\ (Done(t) /\ call[t].hr.kind = "Errno") =>
         /\ ConvOK(call[t]) /\ CanResolve(call[t])
         /\ call[t].n = 1 /\ Negative(call[t].r0)
    /\ Done(t) => call[t].hr.kind \in {"nil", "EINVAL", "DLLError", "Errno"}

\* C14 happens: hcnCreateEndpoint with a NUL in its settings, on a machine
\* without computenetwork.dll, returned the encoding error.
C14_Witness ==
  \E t \in Threads :
    /\ Done(t) /\ call[t].w = "hcnCreateEndpoint"
    /\ call[t].strs = <<WithNUL>>
    /\ "computenetwork.dll" \notin host.dlls
    /\ call[t].hr = EINVAL
    /\ call[t].res = NilProc

\* The positions of a call's string arguments that hold a NUL.
Unconvertible(c) ==
  {i \in 1..Len(c.strs) : \E j \in 1..Len(c.strs[i]) : c.strs[i][j] = 0}

\* The smallest member of a non-empty set of positions.
First(S) == CHOOSE i \in S : \A j \in S : i <= j

\* C15: the legacy call takes method, path and body in this order; it
\* converts the arguments before the first unconvertible one, in order,
\* returns that one's error without converting the later ones, resolving
\* or invoking; with none unconvertible it hands the three buffers in this
\* order to HNSCall.
C15_LegacyCallOrder ==
  /\ WrapperTable["_hnsCall"].strs = <<"method", "path", "object">>
  /\ \A t \in Threads :
       (pc[t] # "idle" /\ call[t].w = "_hnsCall") =>
         LET c == call[t]
         IN /\ Len(c.strs) = 3
            /\ \A i \in 1..Len(c.ptrs) : c.ptrs[i] = UTF16PtrFromString(c.strs[i]).ptr
            /\ Unconvertible(c) # {} =>
                 /\ Done(t)
                 /\ c.hr = UTF16PtrFromString(c.strs[First(Unconvertible(c))]).err
                 /\ c.hr # NoError
                 /\ Len(c.ptrs) = First(Unconvertible(c)) - 1
                 /\ c.res = NilProc
                 /\ c.n = 0
            /\ Unconvertible(c) = {} => Len(c.ptrs) = 3
            /\ c.n = 1 =>
                 /\ Unconvertible(c) = {}
                 /\ c.sent.ptrs = c.ptrs
                 /\ c.target = <<"vmcompute.dll", "HNSCall">>

\* C15 happens: the legacy call with a convertible method and a NUL in both
\* path and body returned after one conversion.
C15_Witness ==
  \E t \in Threads :
    /\ Done(t) /\ call[t].w = "_hnsCall"
    /\ call[t].strs = <<EmptyJSON, WithNUL, WithNUL>>
    /\ call[t].hr = EINVAL
    /\ Len(call[t].ptrs) = 1
    /\ call[t].n = 0

\* C16: a wrapper with an error result whose native call returned a status
\* that is negative as a signed 32-bit integer returns an error, never nil;
\* for 0x80070000 the error is the error number 0, still an error.
C16_NegativeIsFailure ==
  \A t \in Threads :
    (Done(t) /\ call[t].n = 1 /\ WrapperTable[call[t].w].err /\ Negative(call[t].r0))
    => /\ call[t].hr # NoError
       /\ call[t].hr.kind = "Errno"
       /\ call[t].r0 = <<0, 0, 32775, 0>> => call[t].hr = Errno(<<0, 0, 0, 0>>)

\* C16 happens: hcnCloseNetwork got 0x80070000 and returned error number 0.
C16_Witness ==
  \E t \in Threads :
    /\ Done(t) /\ call[t].w = "hcnCloseNetwork"
    /\ call[t].n = 1
    /\ call[t].r0 = <<0, 0, 32775, 0>>
    /\ call[t].hr.kind = "Errno"
    /\ call[t].hr.num = <<0, 0, 0, 0>>

\* C17: GetCurrentThreadCompartmentId returns the low 32 bits of whatever
\* the native call returned, and no error, also for a value with bit 31
\* set; it makes no resolution check of its own: where the entry point
\* cannot be resolved it does not return.
C17_CompartmentIdRaw ==
  /\ WrapperTable["GetCurrentThreadCompartmentId"].find = ""
  /\ \A t \in Threads :
       call[t].w = "GetCurrentThreadCompartmentId" =>
         /\ call[t].hr = NoError
         /\ call[t].n = 1 =>
              /\ Done(t)
              /\ call[t].ret = Low32(call[t].r0)
         /\ (pc[t] \notin {"idle", "find"} /\ ~CanResolve(call[t])) =>
              /\ pc[t] = "panicked"
              /\ call[t].n = 0

\* C17 happens: the native call returned 0x0000000180004005 and the getter
\* returned 0x80004005 as the compartment id.
C17_Witness ==
  \E t \in Threads :
    /\ Done(t) /\ call[t].w = "GetCurrentThreadCompartmentId"
    /\ call[t].r0 = <<0, 1, 32768, 16389>>
    /\ call[t].ret = <<0, 0, 32768, 16389>>
    /\ call[t].hr = NoError

\* The operations on a started sandbox, in the order the tests make them.
SandboxOrder == <<"run", "update", "stop", "remove">>

\* C18: in a pod resource-update test the operations on a sandbox whose run
\* succeeded are run, UpdateContainerResources, stop, remove, in this order
\* and on that sandbox; once the test function has ended all four were made,
\* whether the update succeeded or failed the test; after a run that did not
\* succeed nothing else is made.
C18_StopThenRemove ==
  LET L == test.log
  IN /\ \A k \in 1..Len(L) :
          /\ k <= 4
          /\ L[k].op = SandboxOrder[k]
          /\ L[k].pod = L[1].pod
     /\ (Len(L) >= 1 /\ ~L[1].ok) => Len(L) = 1
     /\ (Len(L) >= 1 /\ L[1].ok /\ test.at = "end") => Len(L) = 4
     /\ (test.at = "update") => (Len(L) = 1 /\ L[1].ok)

\* C18 happens: in the CPU shares test the update failed the test, and the
\* sandbox was stopped and then removed all the same.
C18_Witness ==
  /\ test.fn = "Test_Pod_UpdateResources_CPUShares"
  /\ test.at = "end"
  /\ test.failed
  /\ Len(test.log) = 4
  /\ test.log[1] = Event("run", 1, TRUE)
  /\ test.log[2] = Event("update", 1, FALSE)
  /\ test.log[3].op = "stop"
  /\ test.log[4].op = "remove"
====
